---------------------------- MODULE Spec2Model ----------------------------
(***************************************************************************)
(* A model of Tiddler.py: the extraction of tiddlers from an exported      *)
(* TiddlyWiki document (Tiddler.finditer, Tiddler.parse_from_string,       *)
(* Tiddler.__init__ and the two regular expressions RE_TIDDLER and         *)
(* RE_OPTION).                                                             *)
(*                                                                         *)
(* A Python str is modelled as a sequence of symbols.  A symbol is either  *)
(* one character or a run of characters that the regular expressions can   *)
(* only consume as a whole ("<div", "<pre>", a run of word characters).    *)
(***************************************************************************)
EXTENDS Integers, Sequences, FiniteSets, TLC

\* ------------------------------------------------------------------------
\* Character classes of the re module, on symbols.
\* ------------------------------------------------------------------------

\* \s : the whitespace symbols of the alphabet
Space == {" ", "\n"}

\* the symbols that are neither \s nor \w
Punct == {"<div", ">", "<pre>", "</pre>", "</div>", "=", "\"",
          "$", ":", "/", "[[", "]]", "."}

\* \w : every other symbol is a run of word characters
IsWord(c) == c \notin Space /\ c \notin Punct

Min(S) == CHOOSE x \in S : \A y \in S : x <= y

\* the greatest element, for a greedy group
Max(S) == CHOOSE x \in S : \A y \in S : x >= y

\* ------------------------------------------------------------------------
\* Python values.  A str is Str(sequence of symbols); a list is a reference
\* List(id) to the object heap[id]; a datetime is Date(stamp).
\* ------------------------------------------------------------------------

None == [k |-> "None"]

Str(s) == [k |-> "str", s |-> s]

List(id) == [k |-> "list", id |-> id]

Date(stamp) == [k |-> "datetime", stamp |-> stamp]

\* an instance of Tiddler, with its __dict__
Object(dict) == [k |-> "Tiddler", dict |-> dict]

\* ------------------------------------------------------------------------
\* RE_TIDDLER = '<div' (?P<options>[\w\W]*?) '>\n' '<pre>'
\*              (?P<content>[\w\W]*?) '</pre>\n' '</div>'
\* ------------------------------------------------------------------------

\* the literal '>\n<pre>' stands at position i of s
OpenAt(s, i) ==
    /\ i >= 1 /\ i + 2 <= Len(s)
    /\ s[i] = ">" /\ s[i + 1] = "\n" /\ s[i + 2] = "<pre>"

\* the literal '</pre>\n</div>' stands at position i of s
CloseAt(s, i) ==
    /\ i >= 1 /\ i + 2 <= Len(s)
    /\ s[i] = "</pre>" /\ s[i + 1] = "\n" /\ s[i + 2] = "</div>"

\* the positions at which the content group can end, for a given end of the
\* options group
ContentEnds(s, o) == {c \in (o + 3)..Len(s) : CloseAt(s, c)}

\* the positions o of '>\n<pre>' for which the whole pattern matches when it
\* starts at st
OptionEnds(s, st) ==
    {o \in (st + 1)..Len(s) : OpenAt(s, o) /\ ContentEnds(s, o) # {}}

\* the pattern matches at st
TiddlerAt(s, st) ==
    st >= 1 /\ st <= Len(s) /\ s[st] = "<div" /\ OptionEnds(s, st) # {}

\* a greedy content group, (?P<content>[\w\W]*), ends at the last such place
ContentEndGreedy(s, o) == Max(ContentEnds(s, o))

\* (?P<content>[\w\W]*?) : the lazy group ends at the first place where the
\* rest of the pattern matches
ContentEnd(s, o) == Min(ContentEnds(s, o))

\* the match object of the pattern at st: both groups are lazy
RE_TIDDLER(s, st) ==
    LET o == Min(OptionEnds(s, st))
        c == ContentEnd(s, o)
    IN  [start   |-> st,
         options |-> SubSeq(s, st + 1, o - 1),
         content |-> SubSeq(s, o + 3, c - 1),
         end     |-> c + 3]

\* the starts of the matches at or after position p
TiddlerStarts(s, p) == {st \in p..Len(s) : TiddlerAt(s, st)}

\* re.finditer(cls.RE_TIDDLER, buffer) has a next match from position p
HasTiddler(s, p) == TiddlerStarts(s, p) # {}

\* that match: the leftmost one; the scan resumes at its end
NextTiddler(s, p) == RE_TIDDLER(s, Min(TiddlerStarts(s, p)))

\* ------------------------------------------------------------------------
\* RE_OPTION = '\s+(?P<key>\w+?)="(?P<value>[\w\W]*?)"'
\* ------------------------------------------------------------------------

\* the first position at or after i that holds no whitespace (Len + 1 if none)
SpaceEnd(s, i) == Min({j \in i..(Len(s) + 1) : j > Len(s) \/ s[j] \notin Space})

\* the first position at or after i that holds no word symbol
WordEnd(s, i) == Min({j \in i..(Len(s) + 1) : j > Len(s) \/ ~IsWord(s[j])})

\* the closing quotes at or after position i
Quotes(s, i) == {q \in i..Len(s) : s[q] = "\""}

\* the pattern matches at i: whitespace, a key of word symbols, '="', and a
\* closing quote somewhere after
OptionAt(s, i) ==
    /\ i >= 1 /\ i <= Len(s) /\ s[i] \in Space
    /\ LET j == SpaceEnd(s, i)
           k == WordEnd(s, j)
       IN  /\ k > j
           /\ k + 1 <= Len(s)
           /\ s[k] = "=" /\ s[k + 1] = "\""
           /\ Quotes(s, k + 2) # {}

\* the match object of the pattern at i: the value group is lazy and ends at
\* the first quote
RE_OPTION(s, i) ==
    LET j == SpaceEnd(s, i)
        k == WordEnd(s, j)
        q == Min(Quotes(s, k + 2))
    IN  [start |-> i,
         key   |-> SubSeq(s, j, k - 1),
         value |-> SubSeq(s, k + 2, q - 1),
         end   |-> q + 1]

OptionStarts(s, p) == {i \in p..Len(s) : OptionAt(s, i)}

\* the list of the matches of re.finditer(cls.RE_OPTION, options) from p on
RECURSIVE OptionMatches(_, _)
OptionMatches(s, p) ==
    IF OptionStarts(s, p) = {} THEN <<>>
    ELSE LET m == RE_OPTION(s, Min(OptionStarts(s, p)))
         IN  <<m>> \o OptionMatches(s, m.end)

\* a mapping that keeps the first value of a key
DictSetDefault(d, key, value) ==
    [x \in DOMAIN d \cup {key} |-> IF x \in DOMAIN d THEN d[x] ELSE value]

\* attr[key] = value
DictSet(d, key, value) ==
    [x \in DOMAIN d \cup {key} |-> IF x = key THEN value ELSE d[x]]

\* attr = {}; for match in ...: attr[key] = value
RECURSIVE FillAttr(_, _, _)
FillAttr(ms, n, attr) ==
    IF n > Len(ms) THEN attr
    ELSE FillAttr(ms, n + 1, DictSet(attr, ms[n].key, Str(ms[n].value)))

EmptyDict == [x \in {} |-> <<>>]

Tokenize(options) == FillAttr(OptionMatches(options, 1), 1, EmptyDict)

\* ------------------------------------------------------------------------
\* Tw5Mixin: the normalizers of the fields
\* ------------------------------------------------------------------------

\* the names of attributes and of keyword arguments are strs as well
K(name) == <<name>>

\* the default of the parameter type of __init__
DefaultType == Str(<<"text/vnd.tiddlywiki">>)

\* the 17-digit stamps (%Y%m%d%H%M%S%f) of the alphabet
Stamps == {"20180108222550419", "20180111174922056"}

\* Tw5Mixin.string_to_date accepts s
DateOk(s) == Len(s) = 1 /\ s[1] \in Stamps

\* Tw5Mixin.string_to_date(s), for an s it accepts
string_to_date(s) == Date(s[1])

\* the tag expression from position i on: a tag is a bare word or a
\* [[bracketed phrase]]; ok is FALSE when a [[ is never closed
RECURSIVE TagsFrom(_, _)
TagsFrom(s, i) ==
    IF i > Len(s) THEN [ok |-> TRUE, tags |-> <<>>]
    ELSE IF s[i] = " " THEN TagsFrom(s, i + 1)
    ELSE IF s[i] = "[["
    THEN LET ends == {j \in (i + 1)..Len(s) : s[j] = "]]"}
         IN  IF ends = {} THEN [ok |-> FALSE, tags |-> <<>>]
             ELSE LET j    == Min(ends)
                      rest == TagsFrom(s, j + 1)
                  IN  [ok   |-> rest.ok,
                       tags |-> <<SubSeq(s, i + 1, j - 1)>> \o rest.tags]
    ELSE LET j    == Min({x \in (i + 1)..(Len(s) + 1) : x > Len(s) \/ s[x] = " "})
             rest == TagsFrom(s, j)
         IN  [ok   |-> rest.ok,
              tags |-> <<SubSeq(s, i, j - 1)>> \o rest.tags]

\* Tw5Mixin.get_tag_list accepts s
TagsOk(s) == TagsFrom(s, 1).ok

\* Tw5Mixin.get_tag_list(s), for an s it accepts: the contents of the new list
get_tag_list(s) == TagsFrom(s, 1).tags

\* ------------------------------------------------------------------------
\* Tiddler.__init__
\* ------------------------------------------------------------------------

\* the parameters of __init__ that **attr can bind besides **kwargs
Params == {K("title"), K("tags"), K("created"), K("modified"), K("type")}

\* the parameters that the call cls(content, **attr) has bound already
Bound == {K("self"), K("content")}

\* cls(content, **attr) binds its arguments: a keyword that names a parameter
\* bound positionally is a TypeError
BindsOk(attr) == DOMAIN attr \cap Bound = {}

\* the value of parameter p: the keyword argument, or the default
Arg(attr, p, default) == IF K(p) \in DOMAIN attr THEN attr[K(p)] ELSE default

\* a default list that all the instances share, as tags=[] in the signature
TagsFieldShared(attr, h) ==
    IF Arg(attr, "tags", None) = None THEN List(1) ELSE attr[K("tags")]

\* self.tags = [] if tags is None else tags : the object the field refers to
TagsField(attr, h) ==
    IF Arg(attr, "tags", None) = None THEN List(Len(h) + 1) ELSE attr[K("tags")]

\* the heap after that statement: [] is a new list object
TagsHeap(attr, h) ==
    IF Arg(attr, "tags", None) = None THEN Append(h, <<>>) ELSE h

\* **kwargs: the keywords that name no parameter
Kwargs(attr) == [x \in DOMAIN attr \ Params |-> attr[x]]

\* self.__dict__.update(kwargs)
DictUpdate(d, kw) ==
    [x \in DOMAIN d \cup DOMAIN kw |-> IF x \in DOMAIN kw THEN kw[x] ELSE d[x]]

\* the new instance
Tiddler__init__(content, attr, h) ==
    LET fields == [x \in {K("content"), K("title"), K("tags"), K("created"),
                          K("modified"), K("type_")} |->
                     CASE x = K("content")  -> Str(content)
                       [] x = K("title")    -> Arg(attr, "title", None)
                       [] x = K("tags")     -> TagsField(attr, h)
                       [] x = K("created")  -> Arg(attr, "created", None)
                       [] x = K("modified") -> Arg(attr, "modified", None)
                       [] x = K("type_")    -> Arg(attr, "type", DefaultType)]
    IN  Object(DictUpdate(fields, Kwargs(attr)))

\* ------------------------------------------------------------------------
\* The body of the loop of Tiddler.finditer, for one match
\* ------------------------------------------------------------------------

HasKey(attr, name) == K(name) \in DOMAIN attr

\* the exception a normalizer of Tw5Mixin raises on a value it cannot parse
ParseError == "ValueError"

\* except KeyError: the only exception the try statements of finditer handle
Handled(e) == e = "KeyError"

\* attr['tags'] = cls.get_tag_list(attr['tags']) raises
TagsRaise(attr) ==
    HasKey(attr, "tags") /\ ~TagsOk(attr[K("tags")].s) /\ ~Handled(ParseError)

\* attr after lines 45-48; the new list is heap[Len(h) + 1]
AfterTags(attr, h) ==
    IF HasKey(attr, "tags") /\ TagsOk(attr[K("tags")].s)
    THEN DictSet(attr, K("tags"), List(Len(h) + 1))
    ELSE attr

HeapAfterTags(attr, h) ==
    IF HasKey(attr, "tags") /\ TagsOk(attr[K("tags")].s)
    THEN Append(h, get_tag_list(attr[K("tags")].s))
    ELSE h

\* attr[name] = cls.string_to_date(attr[name]) raises
DateRaise(attr, name) ==
    HasKey(attr, name) /\ ~DateOk(attr[K(name)].s) /\ ~Handled(ParseError)

\* attr after the assignment, when the key is there and the value parses
AfterDate(attr, name) ==
    IF HasKey(attr, name) /\ DateOk(attr[K(name)].s)
    THEN DictSet(attr, K(name), string_to_date(attr[K(name)].s))
    ELSE attr

\* str.startswith
StartsWith(s, prefix) ==
    Len(s) >= Len(prefix) /\ SubSeq(s, 1, Len(prefix)) = prefix

SystemPrefix == <<"$", ":", "/">>

\* lines 55-58: except KeyError: continue; a created that does not parse and
\* whose exception were handled would be skipped in the same way
SkipCreated(attr) ==
    \/ ~HasKey(attr, "created")
    \/ ~DateOk(attr[K("created")].s) /\ Handled(ParseError)

\* the title test without the test of the prefix
SkipTitleMissingOnly(attr) == ~HasKey(attr, "title")

\* lines 60-64: no title, or a title that starts with '$:/'
SkipTitle(attr) ==
    \/ ~HasKey(attr, "title")
    \/ StartsWith(attr[K("title")].s, SystemPrefix)

\* what one pass of the loop body does with the match m, on the heap h:
\* "yield" a new Tiddler, "continue" with the next match, or "raise"
Outcome(m, h) ==
    LET a0 == Tokenize(m.options)
        a1 == AfterTags(a0, h)
        h1 == HeapAfterTags(a0, h)
        a2 == AfterDate(a1, "modified")
        a3 == AfterDate(a2, "created")
        no == [kind |-> "continue", exc |-> "", obj |-> None, heap |-> h1,
               attr |-> a0]
    IN  IF TagsRaise(a0) THEN [no EXCEPT !.kind = "raise", !.exc = ParseError]
        ELSE IF DateRaise(a1, "modified")
             THEN [no EXCEPT !.kind = "raise", !.exc = ParseError]
        ELSE IF DateRaise(a2, "created")
             THEN [no EXCEPT !.kind = "raise", !.exc = ParseError]
        ELSE IF SkipCreated(a2) THEN no
        ELSE IF SkipTitle(a3) THEN no
        ELSE IF ~BindsOk(a3) THEN [no EXCEPT !.kind = "raise", !.exc = "TypeError"]
        ELSE [no EXCEPT !.kind = "yield",
                        !.obj  = Tiddler__init__(m.content, a3, h1),
                        !.heap = TagsHeap(a3, h1)]

\* next(cls.finditer(buffer)) on a new generator, from position p on: the first
\* pass that yields or raises, or "stop" (StopIteration) at the end of the buffer
RECURSIVE FirstOutcome(_, _, _)
FirstOutcome(s, p, h) ==
    IF ~HasTiddler(s, p)
    THEN [kind |-> "stop", exc |-> "StopIteration", obj |-> None, heap |-> h,
          attr |-> EmptyDict]
    ELSE LET m == NextTiddler(s, p)
             o == Outcome(m, h)
         IN  IF o.kind = "continue" THEN FirstOutcome(s, m.end, o.heap) ELSE o

\* ------------------------------------------------------------------------
\* The documents the scan is run on
\* ------------------------------------------------------------------------

\* the number of items (record blocks, other tags, text) of a document
MaxItems == 2

\* ' key="value"'
Attr(key, value) == <<" ", key, "=", "\"">> \o value \o <<"\"">>

Stamp1 == <<"20180108222550419">>

Stamp2 == <<"20180111174922056">>

Created == Attr("created", Stamp1)

Title == Attr("title", <<"t">>)

SystemTitle == Attr("title", <<"$", ":", "/", "s">>)

RECURSIVE Concat(_)
Concat(ss) == IF ss = <<>> THEN <<>> ELSE Head(ss) \o Concat(Tail(ss))

\* the attribute regions of the record blocks
Regions ==
    { <<>>,
      Title,
      Created,
      Created \o Title,
      Title \o Attr("created", Stamp2),
      Created \o SystemTitle,
      Created \o Attr("title", <<"$", ":">>),
      Created \o Attr("title", <<>>),
      Attr("created", <<"bad">>) \o Title,
      Attr("created", <<>>) \o SystemTitle,
      Created \o Title \o Attr("modified", Stamp2),
      Created \o Title \o Attr("modified", <<"bad">>),
      Title \o Attr("modified", <<"bad">>),
      Created \o Title \o Attr("tags", <<"[[", "a", " ", "b", "]]", " ", "c">>),
      Created \o Title \o Attr("tags", <<>>),
      Created \o Title \o Attr("tags", <<"[[", "a">>),
      Created \o Title \o Attr("content", <<"x">>),
      Created \o Title \o Attr("self", <<"x">>),
      Created \o Title \o Attr("type_", <<"x">>),
      Created \o Title \o Attr("type", <<"text", "/", "html">>),
      Created \o Title \o Attr("type", <<"y">>) \o Attr("type_", <<"x">>),
      Created \o Title \o Attr("k", <<"v">>),
      SystemTitle \o Created \o Title,
      Created \o Title \o SystemTitle,
      Created \o <<" ", "tmap", ".", "id", "=", "\"", "v", "\"">> \o Title,
      Created \o <<"title", "=", "\"", "t", "\"">>,
      Created \o <<" ", "title", "=", "t">>,
      <<"\n">> \o Created \o <<"\n">> \o Title \o <<" ">> }

\* the contents of the record blocks: none holds '</pre>\n</div>'
Contents ==
    { <<>>,
      <<"d">>,
      <<"d", "</pre>", "e">>,
      <<"</pre>", "\n", "d">>,
      <<"<div", " ", "e", ">", "\n", "<pre>">> }

Block(options, content) ==
    [kind |-> "block", options |-> options, content |-> content]

\* an opening tag that no '\n<pre>' follows: a wrapper, another element
Tag(options) == [kind |-> "tag", options |-> options, content |-> <<>>]

Text(content) == [kind |-> "text", options |-> <<>>, content |-> content]

Items ==
    {Block(o, <<"c">>) : o \in Regions}
    \cup {Block(Created \o Title, c) : c \in Contents}
    \cup {Tag(o) : o \in {Attr("id", <<"storeArea">>), Created, Title,
                          Created \o SystemTitle, Attr("tags", <<"a">>)}}
    \cup {Text(<<"\n">>), Text(<<"</pre>", "\n", "</div>">>)}

\* the text of an item
Serialize(item) ==
    CASE item.kind = "block" ->
           <<"<div">> \o item.options \o <<">", "\n", "<pre>">>
           \o item.content \o <<"</pre>", "\n", "</div>">>
      [] item.kind = "tag"  -> <<"<div">> \o item.options \o <<">">>
      [] item.kind = "text" -> item.content

\* the text of a document
Document(its) == Concat([i \in 1..Len(its) |-> Serialize(its[i])])

\* the items that follow the first one
Followers ==
    { Block(Created \o Title, <<"c">>),
      Block(Title, <<"d", "</pre>", "e">>),
      Block(Created \o SystemTitle \o Attr("k", <<"v">>), <<>>),
      Block(Attr("created", <<"bad">>) \o Title, <<"c">>),
      Tag(Attr("tags", <<"a">>)) }

\* a first item and up to MaxItems - 1 that follow it
Documents ==
    {<<>>} \cup
    UNION {{<<i>> \o f : i \in Items, f \in [1..n -> Followers]} : n \in 0..(MaxItems - 1)}

\* the options strings the tokenizer is run on: up to MaxFragments fragments
MaxFragments == 3

Fragments ==
    { Attr("k", <<"v">>),
      Attr("k", <<"w", " ", "=", "x">>),
      Attr("j", <<>>),
      <<"\n", " ", "j", "=", "\"", "v", ">", "\"">>,
      <<" ", "k", "=", "v">>,
      <<" ", "k", "=", "\"", "v">>,
      <<"k", "=", "\"", "v", "\"">>,
      <<" ", "k", ".", "j", "=", "\"", "v", "\"">>,
      <<" ", "=", "\"", "v", "\"">>,
      <<" ", "k", " ", "=", "\"", "v", "\"">>,
      <<" ", "j", "k", "=", "\"", "\"">>,
      <<" ">>,
      <<"\"">> }

OptionStrings == {Concat(fs) : fs \in UNION {[1..n -> Fragments] : n \in 0..MaxFragments}}

\* ------------------------------------------------------------------------
\* State
\* ------------------------------------------------------------------------

VARIABLES
    items,     \* the document as written: its blocks, tags and text
    buffer,    \* the argument of finditer and of parse_from_string
    pos,       \* where re.finditer(cls.RE_TIDDLER, buffer) resumes
    status,    \* of the generator: "running", "done" (exhausted), "raised"
    exc,       \* the exception that left the generator, "" if none
    scanned,   \* the passes of the loop so far: the match and what became of it
    yielded,   \* the Tiddlers the caller has received, in order
    heap,      \* the list objects: List(id) refers to heap[id]
    result,    \* of parse_from_string(buffer)
    options,   \* the options string the tokenizer was last run on
    attr       \* the mapping it built

vars == <<items, buffer, pos, status, exc, scanned, yielded, heap, result,
          options, attr>>

Pending == [k |-> "pending"]

Return(v) == [k |-> "return", v |-> v]

Raise(e) == [k |-> "raise", exc |-> e]

\* the generator and the call of parse_from_string have not started
Fresh ==
    /\ pos = 1
    /\ status = "running"
    /\ exc = ""
    /\ scanned = <<>>
    /\ yielded = <<>>
    /\ heap = <<>>
    /\ result = Pending
    /\ options = <<>>
    /\ attr = EmptyDict

Init ==
    /\ items \in Documents
    /\ buffer = Document(items)
    /\ Fresh

\* ------------------------------------------------------------------------
\* Tiddler.finditer: one pass of the loop body
\* ------------------------------------------------------------------------

finditer ==
    /\ status = "running"
    /\ HasTiddler(buffer, pos)
    /\ LET m == NextTiddler(buffer, pos)
           o == Outcome(m, heap)
       IN  /\ pos' = m.end
           /\ scanned' = Append(scanned, [match |-> m, kind |-> o.kind])
           /\ heap' = o.heap
           /\ options' = m.options
           /\ attr' = o.attr
           /\ exc' = o.exc
              \* yield cls(content, **attr)
           /\ \/ /\ o.kind = "yield"
                 /\ yielded' = Append(yielded, o.obj)
                 /\ status' = "running"
              \* continue: the match is left out
              \/ /\ o.kind = "continue"
                 /\ UNCHANGED <<yielded, status>>
              \* an exception leaves the loop and the generator
              \/ /\ o.kind = "raise"
                 /\ status' = "raised"
                 /\ UNCHANGED yielded
    /\ UNCHANGED <<items, buffer, result>>

\* no match is left: the generator is exhausted
Exhaust ==
    /\ status = "running"
    /\ ~HasTiddler(buffer, pos)
    /\ status' = "done"
    /\ UNCHANGED <<items, buffer, pos, exc, scanned, yielded, heap, result,
                   options, attr>>

\* Tiddler.parse_from_string(buffer)
parse_from_string ==
    /\ result = Pending
    /\ LET o == FirstOutcome(buffer, 1, heap)
       IN  /\ result' = CASE o.kind = "yield" -> Return(o.obj)
                          [] o.kind = "stop"  -> Return(None)
                          [] o.kind = "raise" -> Raise(o.exc)
           /\ heap' = o.heap
    /\ UNCHANGED <<items, buffer, pos, status, exc, scanned, yielded, options, attr>>

Next == finditer \/ Exhaust \/ parse_from_string

Spec == Init /\ [][Next]_vars

\* ------------------------------------------------------------------------
\* The tokenizer alone, on any options string
\* ------------------------------------------------------------------------

InitOptions ==
    /\ items = <<>>
    /\ buffer = <<>>
    /\ pos = 1
    /\ status = "running"
    /\ exc = ""
    /\ scanned = <<>>
    /\ yielded = <<>>
    /\ heap = <<>>
    /\ result = Pending
    /\ options \in OptionStrings
    /\ attr = EmptyDict

\* lines 38-43 of finditer, on the options string
TokenizeOptions ==
    /\ status = "running"
    /\ attr' = Tokenize(options)
    /\ status' = "done"
    /\ UNCHANGED <<items, buffer, pos, exc, scanned, yielded, heap, result, options>>

SpecOptions == InitOptions /\ [][TokenizeOptions]_vars

\* ------------------------------------------------------------------------
\* What the claims speak of
\* ------------------------------------------------------------------------

IsYield(e) == e.kind = "yield"

\* the matches that became the yielded Tiddlers, in order
YieldedFrom == SelectSeq(scanned, IsYield)

\* the generator has returned or has been left by an exception
Finished == status \in {"done", "raised"}

\* the title begins with "$:/"
IsSystemTitle(s) == Len(s) >= 3 /\ s[1] = "$" /\ s[2] = ":" /\ s[3] = "/"

\* the raw value of attribute name in the mapping a, <<>> when it is absent
Raw(a, name) == IF K(name) \in DOMAIN a THEN a[K(name)].s ELSE <<>>

\* the inclusion rules, on the mapping a of the raw attributes
Included(a) ==
    /\ K("created") \in DOMAIN a /\ DateOk(Raw(a, "created"))
    /\ K("title") \in DOMAIN a /\ ~IsSystemTitle(Raw(a, "title"))

\* the values of modified and of tags parse, where they are there
Normalizes(a) ==
    /\ K("modified") \in DOMAIN a => DateOk(Raw(a, "modified"))
    /\ K("tags") \in DOMAIN a => TagsOk(Raw(a, "tags"))

\* an object with the lists it refers to in place of the references
Resolve(obj, h) ==
    [x \in DOMAIN obj.dict |->
        IF obj.dict[x].k = "list" THEN [k |-> "list", items |-> h[obj.dict[x].id]]
        ELSE obj.dict[x]]

\* the document is made of record blocks alone
OnlyBlocks == \A i \in 1..Len(items) : items[i].kind = "block"

\* C7: two adjacent record blocks are never merged into one match: in a
\* document made of record blocks, the i-th match has the options and the
\* content of the i-th block, also when the content of a block holds </pre>
\* at a place that is not its end; a scan that ends normally has matched
\* every block
C7_BlocksNotMerged ==
    OnlyBlocks =>
        /\ Len(scanned) <= Len(items)
        /\ \A i \in 1..Len(scanned) :
              /\ scanned[i].match.options = items[i].options
              /\ scanned[i].match.content = items[i].content
        /\ status = "done" => Len(scanned) = Len(items)

\* two blocks have been matched, and the content of the first holds </pre>
C7_Witness ==
    /\ OnlyBlocks
    /\ Len(scanned) = 2
    /\ \E j \in 1..Len(items[1].content) : items[1].content[j] = "</pre>"

\* C10: the options string of a match is the attribute region of one opening
\* tag: it holds no ">"
C10_OptionsOfOneTag ==
    \A i \in 1..Len(scanned) :
        \A j \in 1..Len(scanned[i].match.options) :
            scanned[i].match.options[j] # ">"

BlockAttr(item) == Tokenize(item.options)

\* a well-formed record block that satisfies the inclusion rules
WellFormedBlock(item) ==
    /\ item.kind = "block"
    /\ Included(BlockAttr(item))
    /\ Normalizes(BlockAttr(item))

\* C1: for a buffer made of N well-formed record blocks that all satisfy the
\* inclusion rules, finditer yields exactly N records, the i-th from the i-th
\* block, whatever other attributes the blocks carry
C1_AllBlocksYielded ==
    (\A i \in 1..Len(items) : WellFormedBlock(items[i])) =>
        /\ status # "raised"
        /\ Len(yielded) <= Len(items)
        /\ \A i \in 1..Len(yielded) :
              /\ yielded[i].dict[K("content")] = Str(items[i].content)
              /\ yielded[i].dict[K("title")] = Str(Raw(BlockAttr(items[i]), "title"))
        /\ status = "done" => Len(yielded) = Len(items)

\* C2: a match whose created attribute is there and does not parse is passed
\* over: no failure reaches the caller and the scan goes on
C2_MalformedCreatedSkipped ==
    \A i \in 1..Len(scanned) :
        LET a == Tokenize(scanned[i].match.options)
        IN  (/\ K("created") \in DOMAIN a
             /\ ~DateOk(Raw(a, "created"))
             /\ Normalizes(a))
            => scanned[i].kind = "continue"

\* C3: a modified or tags value that does not parse does not reject the
\* candidate: a match that satisfies the inclusion rules is yielded
C3_OtherFailuresKeepCandidate ==
    \A i \in 1..Len(scanned) :
        LET a == Tokenize(scanned[i].match.options)
        IN  (/\ ~Normalizes(a)
             /\ Included(a)
             /\ DOMAIN a \cap {K("content"), K("self")} = {})
            => scanned[i].kind = "yield"

\* C5: parse_from_string returns the first record that finditer yields for the
\* buffer, and returns None, without raising, when finditer yields nothing
C5_FirstOrNone ==
    result # Pending =>
        /\ result.k = "return"
        /\ Len(yielded) >= 1 =>
              /\ result.v # None
              /\ Resolve(result.v, heap) = Resolve(yielded[1], heap)
        /\ (Finished /\ yielded = <<>>) => result.v = None

\* the keys that set the first-class fields
FirstClass == {K("title"), K("tags"), K("created"), K("modified"), K("type")}

\* C6: for every accepted candidate the factory constructs one record, in
\* which title, tags, created, modified and type set the first-class fields
\* and every other key is stored as it is, without changing the content or a
\* first-class field and without failing
C6_ExtraAttributesVerbatim ==
    /\ \A i \in 1..Len(scanned) :
          LET a == Tokenize(scanned[i].match.options)
          IN  (Included(a) /\ Normalizes(a)) => scanned[i].kind = "yield"
    /\ Len(yielded) = Len(YieldedFrom)
    /\ \A i \in 1..Len(yielded) :
          LET a == Tokenize(YieldedFrom[i].match.options)
              d == yielded[i].dict
          IN  /\ d[K("content")] = Str(YieldedFrom[i].match.content)
              /\ d[K("title")] = a[K("title")]
              /\ d[K("type_")] = IF K("type") \in DOMAIN a THEN a[K("type")]
                                 ELSE DefaultType
              /\ \A key \in DOMAIN a \ (FirstClass \cup {K("content"), K("type_")}) :
                    key \in DOMAIN d /\ d[key] = a[key]

\* the Tiddlers constructed so far: those yielded and the one returned
Constructed ==
    {yielded[i] : i \in 1..Len(yielded)}
    \cup (IF result.k = "return" /\ result.v # None THEN {result.v} ELSE {})

QuoteFrom(s, i) ==
    IF \E q \in i..Len(s) : s[q] = "\""
    THEN CHOOSE q \in i..Len(s) :
            s[q] = "\"" /\ \A x \in i..(q - 1) : s[x] # "\""
    ELSE Len(s) + 1

\* the fragments of s that have the syntax of an attribute, as pairs <<i, k>>:
\* whitespace from i on, then word symbols up to k - 1, then '="' at k and a
\* closing quote after it
AttributeFragments(s) ==
    {f \in (1..Len(s)) \X (1..Len(s)) :
        /\ f[1] < f[2]
        /\ f[2] + 1 <= Len(s)
        /\ s[f[2]] = "=" /\ s[f[2] + 1] = "\""
        /\ s[f[1]] \in Space
        /\ IsWord(s[f[2] - 1])
        /\ \A x \in f[1]..(f[2] - 1) : s[x] \in Space \/ IsWord(s[x])
        /\ \A x \in f[1]..(f[2] - 2) : IsWord(s[x]) => IsWord(s[x + 1])
        /\ QuoteFrom(s, f[2] + 2) <= Len(s)}

\* the key of a fragment: its word symbols
KeyOf(s, f) ==
    LET j == CHOOSE x \in f[1]..(f[2] - 1) :
                IsWord(s[x]) /\ \A y \in f[1]..(x - 1) : ~IsWord(s[y])
    IN  SubSeq(s, j, f[2] - 1)

\* its value: what stands between the quotes
ValueOf(s, f) == SubSeq(s, f[2] + 2, QuoteFrom(s, f[2] + 2) - 1)

\* the position of its closing quote
LastOf(s, f) == QuoteFrom(s, f[2] + 2)

\* the fragments a scan from left to right finds, from position p on: the
\* leftmost one, then those after its end
RECURSIVE Found(_, _)
Found(s, p) ==
    LET later == {f \in AttributeFragments(s) : f[1] >= p}
    IN  IF later = {} THEN {}
        ELSE LET f == CHOOSE f \in later : \A g \in later : f[1] <= g[1] /\ (f[1] = g[1] => f[2] <= g[2])
             IN  {f} \cup Found(s, LastOf(s, f) + 1)

\* C8: the tokenizer never fails, and the mapping it returns has exactly the
\* keys of the fragments found that have the syntax of an attribute, each with
\* the value of its last occurrence; the other fragments give no key and no
\* value
C8_TokenizerLastWins ==
    status = "done" =>
        LET F == Found(options, 1)
        IN  /\ exc = ""
            /\ DOMAIN attr = {KeyOf(options, f) : f \in F}
            /\ \A f \in F :
                  (\A g \in F : KeyOf(options, g) = KeyOf(options, f) => g[1] <= f[1])
                  => attr[KeyOf(options, f)] = Str(ValueOf(options, f))

\* the tokenizer has run on a string in which a key occurs twice with
\* different values and which holds a fragment that is dropped
C8_Witness ==
    /\ status = "done"
    /\ buffer = <<>>
    /\ LET F == Found(options, 1)
       IN  /\ \E f \in F, g \in F :
                 /\ f[1] < g[1]
                 /\ KeyOf(options, f) = KeyOf(options, g)
                 /\ ValueOf(options, f) # ValueOf(options, g)
           /\ \E x \in 1..Len(options) :
                 /\ options[x] = "="
                 /\ \A f \in F : x < f[1] \/ x > LastOf(options, f)

\* ------------------------------------------------------------------------
\* The scan on the documents whose dates and tags all parse
\* ------------------------------------------------------------------------

Parses(item) ==
    LET a == BlockAttr(item)
    IN  /\ Normalizes(a)
        /\ K("created") \in DOMAIN a => DateOk(Raw(a, "created"))

InitParsed ==
    /\ Init
    /\ \A i \in 1..Len(items) : Parses(items[i])

SpecParsed == InitParsed /\ [][Next]_vars

=============================================================================
